---- MODULE Spec2Model ----
(***************************************************************************)
(* Model of the model-retrieval engine of opsml-cli                        *)
(* (src/src/api/download_file.rs, src/src/api/model.rs,                    *)
(* src/src/api/route_helper.rs, src/src/api/utils.rs).                     *)
(*                                                                         *)
(* One run of ModelDownloader::download_model or of                        *)
(* ModelDownloader::get_metadata is a sequential process; pc is its        *)
(* position.  Every network round trip is two steps (the request is sent,  *)
(* the response is handled), so that "in flight" is a state.  The registry *)
(* is the environment: its answers are chosen when they are received.      *)
(*                                                                         *)
(* Representation.                                                         *)
(*   Option<T>   a sequence of length 0 (None) or 1 (Some(v)).             *)
(*   file name   the sequence of its dot-separated segments:               *)
(*               "model.onnx" is <<"model","onnx">>, "root" is <<"root">>, *)
(*               "v1.0.0" is <<"v1","0","0">>; the component ".." is       *)
(*               <<"..">>.                                                 *)
(*   Path        the sequence of its components (std::path::Components).   *)
(*               All paths of the model are relative.                      *)
(***************************************************************************)
EXTENDS Integers, Sequences, FiniteSets, TLC

VARIABLES
    entry,           \* which public function runs: download_model / download_model_metadata
    name,            \* ModelDownloader.name     : Option<&str>
    version,         \* ModelDownloader.version  : Option<&str>
    uid,             \* ModelDownloader.uid      : Option<&str>
    onnx,            \* ModelDownloader.onnx
    no_onnx,         \* ModelDownloader.no_onnx
    quantize,        \* ModelDownloader.quantize
    preprocessor,    \* DownloadModelArgs.preprocessor (--preprocessor), not a field of ModelDownloader
    env_uri,         \* the environment variable OPSML_TRACKING_URI : Option<url>
    tracking_uri,    \* the lazy_static OPSML_TRACKING_URI : None until first use
    pc,              \* position of the run
    phase,           \* which download_files call is active: "none", "companion", "primary"
    model_metadata,  \* Option<ModelMetadata>, the value parsed by get_model_metadata
    rpath,           \* Option<Path>: the root of the active download_files call
    rpath_files,     \* the listing of the active download_files call
    idx,             \* 1-based position of the for loop over rpath_files.files
    lpath,           \* Option<Path>: the local path of the file being downloaded
    inflight,        \* Option<request>: the request awaiting its response
    requests,        \* history: every request sent, in order
    response,        \* Option<Response>: the last response received, status and body
    files,           \* the disk: resolved local path |-> content
    dirs,            \* the disk: the set of directories created
    result,          \* "running", "Ok", "Err" (the call returned Err) or "Panic"
    error,           \* the kind of failure, "" while there is none
    message          \* Option<text>: the text that the Err of download_file carries

vars == <<entry, name, version, uid, onnx, no_onnx, quantize, preprocessor, env_uri,
          tracking_uri,
          pc, phase, model_metadata, rpath, rpath_files, idx, lpath, inflight,
          requests, response, files, dirs, result, error, message>>

args == <<entry, name, version, uid, onnx, no_onnx, quantize, preprocessor>>
loop == <<rpath, rpath_files, idx, lpath>>
disk == <<files, dirs>>

----------------------------------------------------------------------------
(* Option                                                                  *)

None == <<>>
Some(v) == <<v>>
is_some(o) == Len(o) = 1
is_none(o) == Len(o) = 0
unwrap(o) == o[1]

----------------------------------------------------------------------------
(* std::path                                                               *)

ParentDir == <<"..">>

\* Path::file_name: the last component, None when the path is empty or ends in "..".
file_name(p) ==
    IF Len(p) = 0 THEN None
    ELSE IF p[Len(p)] = ParentDir THEN None
    ELSE Some(p[Len(p)])

\* Path::extension: the part of file_name after its last '.', None when there
\* is no '.', or when the only '.' is the first character.
extension(p) ==
    IF is_none(file_name(p)) THEN None
    ELSE LET f == unwrap(file_name(p)) IN
         IF Len(f) = 1 THEN None
         ELSE IF Len(f) = 2 /\ f[1] = "" THEN None
         ELSE Some(f[Len(f)])

\* Path::starts_with: base is a component-wise prefix of p.
starts_with(p, base) ==
    /\ Len(base) <= Len(p)
    /\ \A i \in 1..Len(base) : p[i] = base[i]

\* Path::strip_prefix: Ok(rest) as Some(rest), Err(StripPrefixError) as None.
strip_prefix(p, base) ==
    IF starts_with(p, base) THEN Some(SubSeq(p, Len(base) + 1, Len(p))) ELSE None

\* Path::join with a relative argument.
join(p, q) == p \o q

\* Path::parent: None for the empty path.
parent(p) == IF Len(p) = 0 THEN None ELSE Some(SubSeq(p, 1, Len(p) - 1))

\* The file-system object a relative path names, ".." resolved against the
\* working directory (a leading ".." is above the working directory).
RECURSIVE Resolve(_)
Resolve(p) ==
    IF Len(p) = 0 THEN <<>>
    ELSE LET r == Resolve(SubSeq(p, 1, Len(p) - 1))
             c == p[Len(p)] IN
         IF c = ParentDir
         THEN IF Len(r) > 0 /\ r[Len(r)] # ParentDir
              THEN SubSeq(r, 1, Len(r) - 1)
              ELSE Append(r, c)
         ELSE Append(r, c)

----------------------------------------------------------------------------
(* Bounds and the values the environment is drawn from                     *)

\* The longest listing the registry answers with.
MaxFiles == 2

\* The longest string remove_suffix is applied to, in characters.
MaxLen == 3

\* ModelDownloader.write_dir: the default of --write-dir.
write_dir == << <<"models">> >>

MODEL_METADATA_FILE == <<"metadata", "json">>

\* The values a URI field of the metadata document takes when it is present.
ModelUri == << <<"artifacts">>, <<"model", "pkl">> >>
OnnxUri == << <<"root">>, <<"model", "onnx">> >>
QuantizedUri == << <<"quantized">> >>
PreprocessorUri == << <<"root">> >>
TokenizerUri == << <<"tok">>, <<"tokenizer", "json">> >>
FeatureExtractorUri == << <<"extractor">> >>

\* The values of the environment variable OPSML_TRACKING_URI: a url is the
\* sequence of its characters, of which only a trailing '/' is told apart.
EnvValues == {None, Some(<<"http://localhost:8080", "/">>)}

\* The values OPSML_TRACKING_URI takes when the environment of the process
\* changes during a run: unset, the registry, another registry.
ChangingEnvValues == EnvValues \cup {Some(<<"http://registry:8888">>)}

\* The shapes of a set OPSML_TRACKING_URI: without a trailing '/', with one,
\* with two, and with a '/' that is not trailing.
TrackingUriValues ==
    EnvValues \cup {Some(<<"http://localhost:8080">>),
                    Some(<<"http://localhost:8080", "/", "/">>),
                    Some(<<"http://localhost:8080", "/", "opsml">>)}

Statuses == {201, 404}

\* Mutant of is_success: every status below 500 counts as a success.
is_success_below_500(status) == status < 500

\* StatusCode::is_success
is_success(status) == status >= 200 /\ status <= 299

\* The roots a metadata document of MetadataDocuments names.
Roots == {ModelUri, OnnxUri, QuantizedUri, PreprocessorUri, TokenizerUri,
          FeatureExtractorUri}

\* The roots that name a single file on the registry.
FileRoots == {ModelUri, OnnxUri, TokenizerUri}

\* The remote file paths a listing of root r is made of: the root itself for
\* a file root, two files below it (one in a sub-directory) for a directory
\* root, and in both cases a file outside the root.
Candidates(r) ==
    (IF r \in FileRoots
     THEN {r}
     ELSE {r \o << <<"a", "bin">> >>, r \o << <<"sub">>, <<"b", "bin">> >>})
    \cup {<< <<"other">>, <<"c", "bin">> >>}

RECURSIVE SeqsUpTo(_, _)
SeqsUpTo(S, n) ==
    IF n = 0 THEN {<<>>}
    ELSE LET shorter == SeqsUpTo(S, n - 1) IN
         shorter \cup {Append(q, x) : q \in {t \in shorter : Len(t) = n - 1}, x \in S}

\* ListFileResponse values the registry may answer with for root r.
Listings(r) == SeqsUpTo(Candidates(r), MaxFiles)

OptionOf(v) == {None, Some(v)}

----------------------------------------------------------------------------
(* utils.rs                                                                *)

\* check_args: TRUE for Ok(()), FALSE for Err.
check_args(n, v, u) ==
    LET has_common == is_none(n) /\ is_none(v)
        has_uid == is_none(u)
    IN has_common # has_uid

\* Mutant of remove_suffix: every trailing occurrence is removed
\* (trim_end_matches).
RECURSIVE remove_suffix_all(_, _)
remove_suffix_all(s, suffix) ==
    IF Len(s) > 0 /\ s[Len(s)] = suffix
    THEN remove_suffix_all(SubSeq(s, 1, Len(s) - 1), suffix)
    ELSE s

\* remove_suffix
remove_suffix(s, suffix) ==
    IF Len(s) > 0 /\ s[Len(s)] = suffix THEN SubSeq(s, 1, Len(s) - 1) ELSE s

\* The initialiser of the lazy_static OPSML_TRACKING_URI, for a set variable.
tracking_uri_of(val) ==
    IF Len(val) > 0 /\ val[Len(val)] = "/" THEN remove_suffix(val, "/") ELSE val

\* OpsmlPaths::as_str
OpsmlPaths_as_str(base, which) ==
    CASE which = "MetadataDownload" -> <<base, "/opsml/models/metadata">>
      [] which = "ListFile" -> <<base, "/opsml/files/list">>
      [] which = "Download" -> <<base, "/opsml/files/download">>

----------------------------------------------------------------------------
(* The disk                                                                *)

\* The directories create_dir_all(p) leaves behind: every prefix of p.
Prefixes(p) == {Resolve(SubSeq(p, 1, k)) : k \in 0..Len(p)}

\* create_dir_all(p) succeeds unless a prefix of p is a file.
create_dir_all_ok(p) == \A d \in Prefixes(p) : d \notin DOMAIN files

\* create_dir_path: the directories it creates for path p (the parent of p
\* and its ancestors).
create_dir_path_ok(p) == is_some(parent(p)) /\ create_dir_all_ok(unwrap(parent(p)))
create_dir_path(p) == dirs \cup Prefixes(unwrap(parent(p)))

\* File::create(p) succeeds unless p names a directory.
file_create_ok(p) == Resolve(p) \notin dirs

\* Mutant of Written: the write leaves no other file behind.
Written_exclusive(p, c) == [q \in {Resolve(p)} |-> c]

\* The disk after content c was written to p.
Written(p, c) == [q \in DOMAIN files \cup {Resolve(p)} |->
                    IF q = Resolve(p) THEN c ELSE files[q]]

\* The content of a file streamed from the remote file src; complete is
\* FALSE when the stream broke off after File::create.
Artifact(src, complete) ==
    [kind |-> "artifact", src |-> src, doc |-> None, complete |-> complete]

\* The content of the file save_metadata_to_json writes: the JSON text json.
MetadataFile(json) ==
    [kind |-> "metadata", src |-> <<>>, doc |-> Some(json), complete |-> TRUE]

----------------------------------------------------------------------------
(* ModelDownloader: the pure parts                                         *)

\* Mutant of get_model_uri: the exported model whenever the metadata has one.
get_model_uri_onnx_if_present(download_onnx, q, m) ==
    IF is_some(m.onnx_uri) THEN m.onnx_uri ELSE Some(m.model_uri)

\* Mutant of get_model_uri: the quantize flag is not read.
get_model_uri_ignores_quantize(download_onnx, q, m) ==
    IF download_onnx THEN m.onnx_uri ELSE Some(m.model_uri)

\* Mutant of get_model_uri: an absent export falls back to the trained model.
get_model_uri_falls_back(download_onnx, q, m) ==
    LET wanted == IF q THEN m.quantized_model_uri ELSE m.onnx_uri IN
    IF download_onnx /\ is_some(wanted) THEN wanted ELSE Some(m.model_uri)

\* get_model_uri: Some(uri), or None where the code panics in expect(NO_ONNX_URI).
get_model_uri(download_onnx, q, m) ==
    IF download_onnx
    THEN IF q = TRUE
         THEN m.quantized_model_uri
         ELSE m.onnx_uri
    ELSE Some(m.model_uri)

\* Mutant of get_preprocessor_uri: the tokenizer is looked at first.
get_preprocessor_uri_tokenizer_first(m) ==
    IF is_some(m.tokenizer_uri) THEN Some(unwrap(m.tokenizer_uri))
    ELSE IF is_some(m.preprocessor_uri) THEN Some(unwrap(m.preprocessor_uri))
    ELSE IF is_some(m.feature_extractor_uri) THEN Some(unwrap(m.feature_extractor_uri))
    ELSE None

\* Mutant of get_preprocessor_uri: only preprocessor_uri is looked at.
get_preprocessor_uri_preprocessor_only(m) ==
    IF is_some(m.preprocessor_uri) THEN Some(unwrap(m.preprocessor_uri)) ELSE None

\* get_preprocessor_uri
get_preprocessor_uri(m) ==
    IF is_some(m.preprocessor_uri) THEN Some(unwrap(m.preprocessor_uri))
    ELSE IF is_some(m.tokenizer_uri) THEN Some(unwrap(m.tokenizer_uri))
    ELSE IF is_some(m.feature_extractor_uri) THEN Some(unwrap(m.feature_extractor_uri))
    ELSE None

\* Mutant of local_path: the base name of the file under every root.
local_path_flat(root, file) ==
    IF is_none(file_name(file)) THEN None
    ELSE Some(join(write_dir, <<unwrap(file_name(file))>>))

\* Mutant of local_path: the root prefix is stripped under every root.
local_path_strict(root, file) ==
    IF is_none(strip_prefix(file, root)) THEN None
    ELSE Some(join(write_dir, unwrap(strip_prefix(file, root))))

\* Mutant of local_path: a file outside a root without extension is written
\* under its base name instead of failing.
local_path_keeps_outside(root, file) ==
    IF is_none(file_name(file)) THEN None
    ELSE IF is_none(extension(root)) /\ is_some(strip_prefix(file, root))
    THEN Some(join(write_dir, unwrap(strip_prefix(file, root))))
    ELSE Some(join(write_dir, <<unwrap(file_name(file))>>))

\* The lpath of download_files for a listed file: Some(path), or None where
\* with_context(|| "Failed to create file path")? returns the error.
local_path(root, file) ==
    IF is_none(extension(root))
    THEN LET path_to_file == strip_prefix(file, root) IN
         IF is_none(path_to_file) THEN None
         ELSE Some(join(write_dir, unwrap(path_to_file)))
    ELSE LET base_name == file_name(file) IN
         IF is_none(base_name) THEN None
         ELSE Some(join(write_dir, <<unwrap(base_name)>>))

\* JSON.  A JSON object is a record over the keys that matter, each key with
\* a JSON value (null or a string) or with JsonAbsent when the object does
\* not have the key.
JsonAbsent == <<"absent">>
JsonNull == <<"null">>
JsonString(s) == <<"string", s>>
is_string(v) == v[1] = "string"

\* The values of an optional URI key of a metadata document; JsonPresentOf
\* leaves out the documents without the key.
JsonOptionOf(uri) == {JsonAbsent, JsonNull, JsonString(uri)}
JsonPresentOf(uri) == {JsonNull, JsonString(uri)}

\* A metadata document as the registry sends it: the URI keys of
\* types::ModelMetadata that the retrieval reads, and a key that
\* types::ModelMetadata does not declare.
MetadataDocuments ==
    [model_uri : {JsonAbsent, JsonString(ModelUri)},
     onnx_uri : JsonOptionOf(OnnxUri),
     quantized_model_uri : JsonPresentOf(QuantizedUri),
     preprocessor_uri : JsonPresentOf(PreprocessorUri),
     tokenizer_uri : JsonPresentOf(TokenizerUri),
     feature_extractor_uri : JsonPresentOf(FeatureExtractorUri),
     undeclared : {JsonAbsent, JsonString("extra")}]

\* The bodies of a metadata response: None is text that is no JSON object.
MetadataBodies == {None} \cup {Some(d) : d \in MetadataDocuments}

\* Deserialize for Option<String>: a string is Some, null and a missing key
\* are None.
option_of_json(v) == IF is_string(v) THEN Some(v[2]) ELSE None

\* Mutant of parse_metadata: a missing model_uri is read as the default path
\* (#[serde(default)]).
parse_metadata_lenient(body) ==
    IF is_none(body) THEN None
    ELSE LET d == unwrap(body) IN
         Some([model_uri |-> IF is_string(d.model_uri) THEN d.model_uri[2] ELSE ModelUri,
               onnx_uri |-> option_of_json(d.onnx_uri),
               quantized_model_uri |-> option_of_json(d.quantized_model_uri),
               preprocessor_uri |-> option_of_json(d.preprocessor_uri),
               tokenizer_uri |-> option_of_json(d.tokenizer_uri),
               feature_extractor_uri |-> option_of_json(d.feature_extractor_uri)])

\* serde_json::from_str::<ModelMetadata> of a response body: Err (None) for
\* text that is no JSON object and for an object without the required
\* model_uri; the declared keys are read, undeclared keys are dropped.
parse_metadata(body) ==
    IF is_none(body) THEN None
    ELSE LET d == unwrap(body) IN
         IF ~is_string(d.model_uri) THEN None
         ELSE Some([model_uri |-> d.model_uri[2],
                    onnx_uri |-> option_of_json(d.onnx_uri),
                    quantized_model_uri |-> option_of_json(d.quantized_model_uri),
                    preprocessor_uri |-> option_of_json(d.preprocessor_uri),
                    tokenizer_uri |-> option_of_json(d.tokenizer_uri),
                    feature_extractor_uri |-> option_of_json(d.feature_extractor_uri)])

\* Mutant of json_of_option: None is left out (skip_serializing_if).
json_of_option_skips_none(o) == IF is_some(o) THEN JsonString(unwrap(o)) ELSE JsonAbsent

\* Serialize for Option<String>: Some is a string, None is null.
json_of_option(o) == IF is_some(o) THEN JsonString(unwrap(o)) ELSE JsonNull

\* Mutant of to_string: onnx_uri is left out of the JSON text.
to_string_skips_onnx_uri(m) ==
    [model_uri |-> JsonString(m.model_uri),
     onnx_uri |-> JsonAbsent,
     quantized_model_uri |-> json_of_option(m.quantized_model_uri),
     preprocessor_uri |-> json_of_option(m.preprocessor_uri),
     tokenizer_uri |-> json_of_option(m.tokenizer_uri),
     feature_extractor_uri |-> json_of_option(m.feature_extractor_uri),
     undeclared |-> JsonAbsent]

\* serde_json::to_string of a ModelMetadata: every declared key is written,
\* and no other.
to_string(m) ==
    [model_uri |-> JsonString(m.model_uri),
     onnx_uri |-> json_of_option(m.onnx_uri),
     quantized_model_uri |-> json_of_option(m.quantized_model_uri),
     preprocessor_uri |-> json_of_option(m.preprocessor_uri),
     tokenizer_uri |-> json_of_option(m.tokenizer_uri),
     feature_extractor_uri |-> json_of_option(m.feature_extractor_uri),
     undeclared |-> JsonAbsent]

\* The bodies of a listing response for root r: None is text that is no
\* {"files": [...]} document.
ListingBodies(r) == {None} \cup {Some([files |-> l]) : l \in Listings(r)}

\* Response::json::<ListFileResponse> of a response body.
parse_listing(body) ==
    IF is_none(body) THEN None ELSE Some(unwrap(body).files)

\* The texts of a response of the download endpoint that is no success: None
\* is a body that Response::text fails to read.
ErrorTexts == {None, Some("Not Found"), Some("Internal Server Error")}

\* reqwest::Response as the program sees it: the status and the body.
Response(status, body) == [status |-> status, body |-> body]

----------------------------------------------------------------------------
(* The run                                                                 *)

\* Mutant of Request: the query parameter is the root of the download_files
\* call, also for the download of a listed file.
Request_for_root(method, which, path, ph) ==
    [method |-> method, url |-> OpsmlPaths_as_str(unwrap(tracking_uri'), which),
     path |-> rpath, phase |-> ph]

\* A request as the registry receives it: the method, the url of the
\* endpoint, and the path query parameter.
Request(method, which, path, ph) ==
    [method |-> method, url |-> OpsmlPaths_as_str(unwrap(tracking_uri'), which),
     path |-> path, phase |-> ph]

\* Mutant of End: download_model logs a failure of the companion phase and
\* goes on with the primary root.
End_companion_swallowed(r, e) ==
    IF phase = "companion" /\ r = "Err"
    THEN /\ pc' = "get_model_uri"
         /\ inflight' = None
         /\ UNCHANGED <<result, error>>
    ELSE /\ result' = r
         /\ error' = e
         /\ pc' = "done"
         /\ inflight' = None

\* The run ends: the public function returns r, or the thread panics.
End(r, e) ==
    /\ result' = r
    /\ error' = e
    /\ pc' = "done"
    /\ inflight' = None

Continue(next) ==
    /\ pc' = next
    /\ UNCHANGED <<result, error>>

\* Mutant of DerefTrackingUri: the environment is read at every use.
DerefTrackingUri_rereads ==
    tracking_uri' = IF is_some(env_uri) THEN Some(tracking_uri_of(unwrap(env_uri)))
                    ELSE tracking_uri

\* Dereferencing the lazy_static: initialised from the environment on first use.
DerefTrackingUri ==
    tracking_uri' = IF is_some(tracking_uri) THEN tracking_uri
                    ELSE Some(tracking_uri_of(unwrap(env_uri)))

TrackingUriPanics == is_none(tracking_uri) /\ is_none(env_uri)

\* The state when a public function of entries is called with the
\* environment variable drawn from env_values and the --preprocessor flag of
\* the command line drawn from preprocessor_values.
InitFrom(entries, env_values, preprocessor_values) ==
    /\ entry \in entries
    /\ preprocessor \in preprocessor_values
    /\ name \in OptionOf("name")
    /\ version \in OptionOf("version")
    /\ uid \in OptionOf("uid")
    /\ onnx \in BOOLEAN
    /\ no_onnx \in BOOLEAN
    /\ quantize \in BOOLEAN
    /\ entry = "download_model_metadata" =>
           onnx = FALSE /\ no_onnx = FALSE /\ quantize = FALSE
    /\ env_uri \in env_values
    /\ tracking_uri = None
    /\ pc = "get_metadata"
    /\ phase = "none"
    /\ model_metadata = None
    /\ rpath = None
    /\ rpath_files = <<>>
    /\ idx = 0
    /\ lpath = None
    /\ inflight = None
    /\ requests = <<>>
    /\ response = None
    /\ files = <<>>
    /\ dirs = {<<>>}
    /\ result = "running"
    /\ error = ""
    /\ message = None

Init == InitFrom({"download_model", "download_model_metadata"}, EnvValues, {FALSE})

\* Mutant of CheckArgs: get_metadata without the call of check_args.
CheckArgs_skipped ==
    /\ pc = "get_metadata"
    /\ Continue("get_model_metadata")
    /\ UNCHANGED <<args, env_uri, message, tracking_uri, phase, model_metadata, loop, inflight,
                   requests, response, disk>>

\* get_metadata, first statement: check_args(...).await.unwrap()
CheckArgs ==
    /\ pc = "get_metadata"
    /\ IF check_args(name, version, uid)
       THEN Continue("get_model_metadata") /\ UNCHANGED inflight
       ELSE End("Panic", "InvalidIdentity")
    /\ UNCHANGED <<args, env_uri, message, tracking_uri, phase, model_metadata, loop, requests,
                   response, disk>>

\* get_model_metadata up to the await of make_post_request
MetadataRequest ==
    /\ pc = "get_model_metadata"
    /\ IF TrackingUriPanics
       THEN /\ End("Panic", "NoTrackingUri")
            /\ UNCHANGED <<tracking_uri, requests>>
       ELSE /\ DerefTrackingUri
            /\ LET req == Request("POST", "MetadataDownload", None, "metadata") IN
               /\ inflight' = Some(req)
               /\ requests' = Append(requests, req)
            /\ Continue("await_metadata")
    /\ UNCHANGED <<args, env_uri, message, phase, model_metadata, loop, response, disk>>

\* get_model_metadata from the response on, and the return of get_metadata,
\* for a registry whose metadata responses have their body in bodies
MetadataResponseFrom(bodies) ==
    /\ pc = "await_metadata"
    /\ \E transport_ok \in BOOLEAN :
        IF ~transport_ok
        THEN /\ End("Err", "Transport")
             /\ response' = None
             /\ UNCHANGED <<model_metadata, disk>>
        ELSE \E status \in Statuses, body \in bodies :
             LET save_path == join(write_dir, <<MODEL_METADATA_FILE>>)
                 parsed == parse_metadata(body)
             IN
             /\ response' = Some(Response(status, body))
             /\ IF is_none(parsed)
                THEN /\ End("Err", "MetadataParse")
                     /\ UNCHANGED <<model_metadata, disk>>
                ELSE IF ~create_dir_path_ok(save_path)
                THEN /\ End("Err", "CreateDir")
                     /\ UNCHANGED <<model_metadata, disk>>
                ELSE IF ~file_create_ok(save_path)
                THEN /\ End("Err", "MetadataFile")
                     /\ dirs' = create_dir_path(save_path)
                     /\ UNCHANGED <<model_metadata, files>>
                ELSE /\ dirs' = create_dir_path(save_path)
                     /\ files' = Written(save_path, MetadataFile(to_string(unwrap(parsed))))
                     /\ model_metadata' = parsed
                     /\ IF entry = "download_model_metadata"
                        THEN End("Ok", "")
                        ELSE Continue("get_preprocessor_uri") /\ inflight' = None
    /\ UNCHANGED <<args, env_uri, message, tracking_uri, phase, loop, requests>>

MetadataResponse == MetadataResponseFrom(MetadataBodies)

\* download_model: the call of download_files(root) begins
StartDownloadFiles(root, ph) ==
    /\ phase' = ph
    /\ rpath' = Some(root)
    /\ rpath_files' = <<>>
    /\ idx' = 0
    /\ lpath' = None
    /\ Continue("list_files")

\* Mutant of GetPreprocessorUri: the companion is downloaded only when the
\* --preprocessor flag is set.
GetPreprocessorUri_honours_flag ==
    /\ pc = "get_preprocessor_uri"
    /\ LET preprocessor_rpath == get_preprocessor_uri(unwrap(model_metadata)) IN
       IF preprocessor /\ is_some(preprocessor_rpath)
       THEN StartDownloadFiles(unwrap(preprocessor_rpath), "companion")
       ELSE Continue("get_model_uri") /\ UNCHANGED <<phase, loop>>
    /\ UNCHANGED <<args, env_uri, message, tracking_uri, model_metadata, inflight, requests,
                   response, disk>>

\* download_model: get_preprocessor_uri and the test of its result
GetPreprocessorUri ==
    /\ pc = "get_preprocessor_uri"
    /\ LET preprocessor_rpath == get_preprocessor_uri(unwrap(model_metadata)) IN
       IF is_some(preprocessor_rpath)
       THEN StartDownloadFiles(unwrap(preprocessor_rpath), "companion")
       ELSE Continue("get_model_uri") /\ UNCHANGED <<phase, loop>>
    /\ UNCHANGED <<args, env_uri, message, tracking_uri, model_metadata, inflight, requests,
                   response, disk>>

\* Mutant of GetModelUri: download_onnx is taken from the onnx flag.
GetModelUri_reads_onnx ==
    /\ pc = "get_model_uri"
    /\ LET download_onnx == onnx
           model_rpath == get_model_uri(download_onnx, quantize, unwrap(model_metadata))
       IN
       IF is_some(model_rpath)
       THEN StartDownloadFiles(unwrap(model_rpath), "primary") /\ UNCHANGED inflight
       ELSE End("Panic", "MissingVariant") /\ UNCHANGED <<phase, loop>>
    /\ UNCHANGED <<args, env_uri, message, tracking_uri, model_metadata, requests, response, disk>>

\* download_model: get_model_uri(download_onnx, &model_metadata)
GetModelUri ==
    /\ pc = "get_model_uri"
    /\ LET download_onnx == ~no_onnx
           model_rpath == get_model_uri(download_onnx, quantize, unwrap(model_metadata))
       IN
       IF is_some(model_rpath)
       THEN StartDownloadFiles(unwrap(model_rpath), "primary") /\ UNCHANGED inflight
       ELSE End("Panic", "MissingVariant") /\ UNCHANGED <<phase, loop>>
    /\ UNCHANGED <<args, env_uri, message, tracking_uri, model_metadata, requests, response, disk>>

\* download_files: list_files(rpath) up to the await of make_get_request
ListFilesRequest ==
    /\ pc = "list_files"
    /\ DerefTrackingUri
    /\ LET req == Request("GET", "ListFile", rpath, phase) IN
       /\ inflight' = Some(req)
       /\ requests' = Append(requests, req)
    /\ Continue("await_list")
    /\ UNCHANGED <<args, env_uri, message, phase, model_metadata, loop, response, disk>>

\* list_files from the response on: response.json::<ListFileResponse>(), for
\* a registry whose listing responses for root r have their body in bodies[r]
ListFilesResponseFrom(bodies) ==
    /\ pc = "await_list"
    /\ \E transport_ok \in BOOLEAN :
        IF ~transport_ok
        THEN /\ End("Err", "Transport")
             /\ response' = None
             /\ UNCHANGED <<rpath_files, idx>>
        ELSE \E status \in Statuses, body \in bodies[unwrap(rpath)] :
             LET parsed == parse_listing(body) IN
             /\ response' = Some(Response(status, body))
             /\ IF is_none(parsed)
                THEN /\ End("Err", "Listing")
                     /\ UNCHANGED <<rpath_files, idx>>
                ELSE /\ rpath_files' = unwrap(parsed)
                     /\ idx' = 1
                     /\ inflight' = None
                     /\ Continue("for_file")
    /\ UNCHANGED <<args, env_uri, message, tracking_uri, phase, model_metadata, rpath, lpath,
                   requests, disk>>

ListFilesResponse == ListFilesResponseFrom([r \in Roots |-> ListingBodies(r)])

\* download_files: one iteration of the for loop, from the computation of
\* lpath to the await of make_get_request in download_file
DownloadFileRequest ==
    /\ pc = "for_file"
    /\ idx <= Len(rpath_files)
    /\ LET file == rpath_files[idx]
           mapped == local_path(unwrap(rpath), file)
       IN
       IF is_none(mapped)
       THEN /\ End("Err", "PathMapping")
            /\ UNCHANGED <<lpath, dirs, requests, tracking_uri>>
       ELSE IF ~create_dir_path_ok(unwrap(mapped))
       THEN /\ End("Err", "CreateDir")
            /\ lpath' = mapped
            /\ UNCHANGED <<dirs, requests, tracking_uri>>
       ELSE IF is_none(file_name(unwrap(mapped)))
       THEN /\ End("Panic", "FileName")
            /\ lpath' = mapped
            /\ dirs' = create_dir_path(unwrap(mapped))
            /\ UNCHANGED <<requests, tracking_uri>>
       ELSE /\ lpath' = mapped
            /\ dirs' = create_dir_path(unwrap(mapped))
            /\ DerefTrackingUri
            /\ LET req == Request("GET", "Download", Some(file), phase) IN
               /\ inflight' = Some(req)
               /\ requests' = Append(requests, req)
            /\ Continue("await_download")
    /\ UNCHANGED <<args, env_uri, message, phase, model_metadata, rpath, rpath_files, idx,
                   response, files>>

\* download_file from the response on: the status test, download_stream_to_file,
\* and the step of the for loop
DownloadFileResponse ==
    /\ pc = "await_download"
    /\ \E transport_ok \in BOOLEAN, status \in Statuses :
        LET file == rpath_files[idx] IN
        IF ~transport_ok
        THEN /\ End("Err", "Transport")
             /\ response' = None
             /\ UNCHANGED <<idx, files, message>>
        ELSE IF ~is_success(status)
        THEN \E text \in ErrorTexts :
             /\ response' = Some(Response(status, text))
             /\ IF is_none(text)
                THEN End("Panic", "ResponseText") /\ UNCHANGED message
                ELSE /\ End("Err", "Download")
                     /\ message' = Some(<<"Failed to download model: ", unwrap(text)>>)
             /\ UNCHANGED <<idx, files>>
        ELSE \E stream_ok \in BOOLEAN :
             /\ response' = Some(Response(status, file))
             /\ UNCHANGED message
             /\ IF ~file_create_ok(unwrap(lpath))
                THEN /\ End("Panic", "FileCreate")
                     /\ UNCHANGED <<idx, files>>
                ELSE IF ~stream_ok
                THEN /\ End("Err", "Stream")
                     /\ files' = Written(unwrap(lpath), Artifact(file, FALSE))
                     /\ UNCHANGED idx
                ELSE /\ files' = Written(unwrap(lpath), Artifact(file, TRUE))
                     /\ idx' = idx + 1
                     /\ inflight' = None
                     /\ Continue("for_file")
    /\ UNCHANGED <<args, env_uri, tracking_uri, phase, model_metadata, rpath, rpath_files,
                   lpath, requests, dirs>>

\* Mutant of DownloadFilesReturn: download_model returns Ok after the first
\* download_files call, whichever root it was for.
DownloadFilesReturn_early ==
    /\ pc = "for_file"
    /\ idx > Len(rpath_files)
    /\ End("Ok", "")
    /\ UNCHANGED <<args, env_uri, message, tracking_uri, phase, model_metadata, loop, requests,
                   response, disk>>

\* Mutant of DownloadFilesReturn: the return of the companion call is never
\* taken up by download_model.
DownloadFilesReturn_primary_only ==
    /\ pc = "for_file"
    /\ idx > Len(rpath_files)
    /\ phase = "primary"
    /\ End("Ok", "")
    /\ UNCHANGED <<args, env_uri, message, tracking_uri, phase, model_metadata, loop,
                   requests, response, disk>>

\* download_files returns Ok(()) after the last file; download_model goes on
DownloadFilesReturn ==
    /\ pc = "for_file"
    /\ idx > Len(rpath_files)
    /\ IF phase = "companion"
       THEN Continue("get_model_uri") /\ UNCHANGED inflight
       ELSE End("Ok", "")
    /\ UNCHANGED <<args, env_uri, message, tracking_uri, phase, model_metadata, loop, requests,
                   response, disk>>

Next ==
    \/ CheckArgs
    \/ MetadataRequest
    \/ MetadataResponse
    \/ GetPreprocessorUri
    \/ GetModelUri
    \/ ListFilesRequest
    \/ ListFilesResponse
    \/ DownloadFileRequest
    \/ DownloadFileResponse
    \/ DownloadFilesReturn

Spec == Init /\ [][Next]_vars

\* download_model_metadata alone, under every shape of the environment
\* variable: the run ends with the return of get_metadata.
InitMetadata == InitFrom({"download_model_metadata"}, TrackingUriValues, {FALSE})

NextMetadata ==
    \/ CheckArgs
    \/ MetadataRequest
    \/ MetadataResponse

SpecMetadata == InitMetadata /\ [][NextMetadata]_vars

\* A registry whose trained model is the versioned directory models/v1.0.0
\* and whose listings hold a metadata.json, a path with a ".." component and
\* files of one base name in two directories.
VersionedUri == << <<"models">>, <<"v1", "0", "0">> >>

VersionedDocuments ==
    [model_uri : {JsonString(VersionedUri)},
     onnx_uri : {JsonNull},
     quantized_model_uri : {JsonNull},
     preprocessor_uri : JsonPresentOf(PreprocessorUri),
     tokenizer_uri : {JsonNull},
     feature_extractor_uri : {JsonNull},
     undeclared : {JsonAbsent}]

VersionedBodies == {Some(d) : d \in VersionedDocuments}

VersionedCandidates(r) ==
    IF r = VersionedUri
    THEN {r \o << <<"a">>, <<"x", "bin">> >>,
          r \o << <<"b">>, <<"x", "bin">> >>,
          r \o << MODEL_METADATA_FILE >>}
    ELSE {r \o << <<"a", "bin">> >>,
          r \o << ParentDir, <<"escape", "bin">> >>,
          r \o << MODEL_METADATA_FILE >>}

VersionedListingBodies(r) ==
    {Some([files |-> l]) : l \in SeqsUpTo(VersionedCandidates(r), MaxFiles)}

VersionedMetadataResponse == MetadataResponseFrom(VersionedBodies)

VersionedListFilesResponse ==
    ListFilesResponseFrom([r \in {VersionedUri, PreprocessorUri} |->
                              VersionedListingBodies(r)])

\* download_model for a uid, with the trained model asked for, against this
\* registry.
InitVersioned ==
    /\ InitFrom({"download_model"}, {Some(<<"http://localhost:8080", "/">>)}, {FALSE})
    /\ is_some(uid) /\ is_none(name) /\ is_none(version)
    /\ no_onnx /\ ~onnx /\ ~quantize

NextVersioned ==
    \/ CheckArgs
    \/ MetadataRequest
    \/ VersionedMetadataResponse
    \/ GetPreprocessorUri
    \/ GetModelUri
    \/ ListFilesRequest
    \/ VersionedListFilesResponse
    \/ DownloadFileRequest
    \/ DownloadFileResponse
    \/ DownloadFilesReturn

SpecVersioned == InitVersioned /\ [][NextVersioned]_vars

\* The environment of the process changes while the run is under way
\* (env::set_var or env::remove_var in the process).
SetEnv ==
    /\ pc # "done"
    /\ \E val \in ChangingEnvValues \ {env_uri} : env_uri' = val
    /\ UNCHANGED <<args, message, tracking_uri, pc, phase, model_metadata, loop,
                   inflight, requests, response, disk, result, error>>

\* download_model for a uid, with the trained model asked for, in a process
\* whose environment changes.
InitEnv ==
    /\ InitFrom({"download_model"}, ChangingEnvValues, {FALSE})
    /\ is_some(uid) /\ is_none(name) /\ is_none(version)
    /\ no_onnx /\ ~onnx /\ ~quantize

NextEnv ==
    \/ Next
    \/ SetEnv

SpecEnv == InitEnv /\ [][NextEnv]_vars

\* Both public functions for an identity that is a uid or nothing, run by
\* the tokio runtime (#[tokio::main]): block_on polls the future of the run
\* until it is ready, so a step that can be taken is taken.
InitLive ==
    /\ Init
    /\ is_none(name)
    /\ is_none(version)

SpecLive == InitLive /\ [][Next]_vars /\ WF_vars(Next)

\* The retrieval of a model by uid under every value of the flags of the
\* command line, --preprocessor included, which main never hands to
\* download_model.
InitPolicy ==
    /\ InitFrom({"download_model"}, {Some(<<"http://localhost:8080", "/">>)}, BOOLEAN)
    /\ is_none(name) /\ is_none(version) /\ is_some(uid)

SpecPolicy == InitPolicy /\ [][Next]_vars

----------------------------------------------------------------------------
(* Properties                                                              *)

RequestsOf(ph) == {i \in DOMAIN requests : requests[i].phase = ph}

DiskUntouched == files = <<>> /\ dirs = {<<>>}

\* The run has left check_args behind.
Validated == pc # "get_metadata"

\* The identity invariant of the data model: a uid and nothing else, or a
\* name and a version and no uid.
ValidIdentity ==
    \/ is_some(uid) /\ is_none(name) /\ is_none(version)
    \/ is_none(uid) /\ is_some(name) /\ is_some(version)

\* C1 (as claimed): once check_args has run, it has accepted the identity if and
\* only if the identity is a uid alone or a name and a version without uid.
\* The code accepts a name alone and a version alone.
C1_AcceptsIffValid ==
    Validated => ((error # "InvalidIdentity") <=> ValidIdentity)

\* C2: an identity that check_args rejects causes no request and no change of
\* the disk, and nothing is sent or written before check_args has run.
C2_ValidationBeforeNetwork ==
    /\ ~Validated => requests = <<>> /\ is_none(inflight) /\ DiskUntouched
    /\ ~check_args(name, version, uid) =>
           requests = <<>> /\ is_none(inflight) /\ DiskUntouched

C2_Witness ==
    /\ pc = "done"
    /\ error = "InvalidIdentity"
    /\ is_some(env_uri)
    /\ is_some(uid) /\ is_some(name)

\* C3 (as claimed): every failure of a run is the Err that the public function
\* returns.  The code panics on a rejected identity (unwrap of check_args) and
\* on an absent export variant (expect(NO_ONNX_URI)).
C3_FailuresAreReturned ==
    (pc = "done" /\ error # "") => result = "Err"


\* The list requests of a phase, as positions of the request history.
ListRequestsOf(ph) ==
    {i \in RequestsOf(ph) : requests[i].url[2] = "/opsml/files/list"}

\* The run is a retrieval that has resolved its metadata.
Resolved == entry = "download_model" /\ is_some(model_metadata)

\* The download_files call of the companion root returned Ok.
CompanionComplete ==
    phase = "companion" /\ idx = Len(rpath_files) + 1

\* C4: with no_onnx set (download_onnx false) the primary root is model_uri,
\* whatever the quantize flag and the export fields are, and the selection
\* never fails.
C4_TrainedModelSelected ==
    (Resolved /\ no_onnx) =>
        LET m == unwrap(model_metadata) IN
        /\ error # "MissingVariant"
        /\ phase = "primary" => rpath = Some(m.model_uri)
        /\ \A i \in ListRequestsOf("primary") : requests[i].path = Some(m.model_uri)

C4_Witness ==
    /\ Resolved /\ no_onnx /\ quantize
    /\ is_some(unwrap(model_metadata).onnx_uri)
    /\ is_some(unwrap(model_metadata).quantized_model_uri)
    /\ ListRequestsOf("primary") # {}
    /\ result = "Ok"

\* C5: with download_onnx true the primary root is quantized_model_uri when
\* quantize is set and onnx_uri when it is not; a present field is selected
\* without failure, and no other field is ever the primary root.
C5_ExportSelected ==
    (Resolved /\ ~no_onnx) =>
        LET m == unwrap(model_metadata) IN
        /\ (quantize /\ is_some(m.quantized_model_uri)) =>
               /\ error # "MissingVariant"
               /\ phase = "primary" => rpath = m.quantized_model_uri
        /\ (~quantize /\ is_some(m.onnx_uri)) =>
               /\ error # "MissingVariant"
               /\ phase = "primary" => rpath = m.onnx_uri
        /\ \A i \in ListRequestsOf("primary") :
               /\ requests[i].path # Some(m.model_uri)
               /\ quantize => requests[i].path = Some(QuantizedUri)
               /\ ~quantize => requests[i].path = Some(OnnxUri)

C5_Witness ==
    /\ Resolved /\ ~no_onnx /\ quantize
    /\ is_some(unwrap(model_metadata).onnx_uri)
    /\ \E i \in ListRequestsOf("primary") : requests[i].path = Some(QuantizedUri)
    /\ result = "Ok"

\* The export field that the flags ask for is absent from the metadata.
ExportMissing ==
    /\ Resolved /\ ~no_onnx
    /\ \/ quantize /\ is_none(unwrap(model_metadata).quantized_model_uri)
       \/ ~quantize /\ is_none(unwrap(model_metadata).onnx_uri)

\* C6: when the export field asked for is absent the selection fails: the run
\* never succeeds, it ends with the missing-variant failure as soon as the
\* companion phase (if any) is over, and no request for a primary root is sent.
C6_MissingVariantFails ==
    ExportMissing =>
        /\ phase # "primary"
        /\ RequestsOf("primary") = {}
        /\ result # "Ok"
        /\ (pc = "done" /\ (phase = "none" \/ CompanionComplete)) =>
               error = "MissingVariant" /\ result \in {"Err", "Panic"}

C6_Witness ==
    /\ ExportMissing /\ quantize
    /\ is_some(unwrap(model_metadata).onnx_uri)
    /\ CompanionComplete /\ Len(rpath_files) > 0
    /\ pc = "done" /\ error = "MissingVariant"

\* The first present option of a sequence of options.
RECURSIVE FirstPresent(_)
FirstPresent(options) ==
    IF options = <<>> THEN None
    ELSE IF is_some(Head(options)) THEN Head(options)
    ELSE FirstPresent(Tail(options))

\* The companion root the metadata asks for: preprocessor, tokenizer, feature
\* extractor, in this order of priority.
CompanionExpected ==
    LET m == unwrap(model_metadata) IN
    FirstPresent(<<m.preprocessor_uri, m.tokenizer_uri, m.feature_extractor_uri>>)

\* C7: the companion root is the first present of preprocessor_uri,
\* tokenizer_uri, feature_extractor_uri; there is no companion phase when all
\* three are absent, and at most one companion root is listed in a run.
C7_CompanionPriority ==
    Resolved =>
        /\ \A i \in ListRequestsOf("companion") : requests[i].path = CompanionExpected
        /\ Cardinality(ListRequestsOf("companion")) <= 1
        /\ phase = "companion" => rpath = CompanionExpected
        /\ is_none(CompanionExpected) =>
               phase # "companion" /\ RequestsOf("companion") = {}
        /\ (is_some(CompanionExpected) /\ pc # "get_preprocessor_uri") =>
               phase \in {"companion", "primary"}
        /\ (is_some(CompanionExpected) /\ phase = "primary") =>
               Cardinality(ListRequestsOf("companion")) = 1

C7_Witness ==
    /\ Resolved
    /\ is_some(unwrap(model_metadata).preprocessor_uri)
    /\ is_some(unwrap(model_metadata).tokenizer_uri)
    /\ \E i \in ListRequestsOf("companion") : requests[i].path = Some(PreprocessorUri)
    /\ phase = "primary" /\ result = "Ok"


\* The download requests of a phase, as positions of the request history.
DownloadRequestsOf(ph) ==
    {i \in RequestsOf(ph) : requests[i].url[2] = "/opsml/files/download"}

\* Every file of the companion listing was requested, in listing order.
CompanionDownloaded ==
    /\ Cardinality(DownloadRequestsOf("companion")) = Len(rpath_files)
    /\ \A k \in 1..Len(rpath_files) :
           \E i \in DownloadRequestsOf("companion") :
               /\ requests[i].path = Some(rpath_files[k])
               /\ Cardinality({j \in DownloadRequestsOf("companion") : j <= i}) = k

\* C8: every request of the companion phase precedes every request of the
\* primary phase, and the primary phase begins only from a companion phase
\* that has completed without failure: a failed companion phase is never
\* followed by a request for the primary root.
C8_CompanionBeforePrimary ==
    [][ /\ \A i \in RequestsOf("companion")', j \in RequestsOf("primary")' : i < j
        /\ RequestsOf("primary")' # {} => phase' = "primary"
        /\ (phase = "companion" /\ phase' = "primary") =>
               /\ CompanionComplete
               /\ CompanionDownloaded
               /\ result = "running"
        /\ (phase = "companion" /\ result # "running") =>
               requests' = requests /\ phase' = phase
      ]_vars

C8_Witness ==
    /\ phase = "primary"
    /\ Cardinality(DownloadRequestsOf("companion")) = 2
    /\ Cardinality(DownloadRequestsOf("primary")) = 1
    /\ result = "Ok"

\* The file name of the last component of a root has no '.'.
HasNoDot(root) == Len(root[Len(root)]) = 1

\* The parent directories of a local path all exist.
ParentsExist(p) == \A j \in 0..(Len(p) - 1) : SubSeq(p, 1, j) \in dirs

\* The listed file at position k lies below the root.
BelowRoot(k) ==
    LET root == unwrap(rpath)
        file == rpath_files[k]
    IN Len(file) >= Len(root) /\ SubSeq(file, 1, Len(root)) = root

\* The destination directory joined with the path of file k relative to the root.
MirroredPath(k) ==
    write_dir \o SubSeq(rpath_files[k], Len(unwrap(rpath)) + 1, Len(rpath_files[k]))

\* C9: under a root without extension every file downloaded is written to
\* the destination directory joined with its path relative to the root, its
\* parent directories exist before the request for it is answered, and the
\* companion phase writes no other artifact.
C9_DirectoryRootMirrored ==
    (is_some(rpath) /\ HasNoDot(unwrap(rpath))) =>
        /\ \A k \in 1..Len(rpath_files) : k < idx =>
               /\ BelowRoot(k)
               /\ MirroredPath(k) \in DOMAIN files
               /\ files[MirroredPath(k)].kind = "artifact"
               /\ files[MirroredPath(k)].src = rpath_files[k]
               /\ files[MirroredPath(k)].complete \/ error = "Stream"
               /\ ParentsExist(MirroredPath(k))
        /\ pc = "await_download" =>
               /\ BelowRoot(idx)
               /\ lpath = Some(MirroredPath(idx))
               /\ ParentsExist(MirroredPath(idx))
               /\ unwrap(inflight).path = Some(rpath_files[idx])
        /\ phase = "companion" =>
               \A p \in DOMAIN files : files[p].kind = "artifact" =>
                   \E k \in 1..Len(rpath_files) :
                       k <= idx /\ BelowRoot(k) /\ p = MirroredPath(k)

C9_Witness ==
    /\ rpath = Some(<< <<"root">> >>)
    /\ rpath_files = << << <<"root">>, <<"a", "bin">> >>,
                        << <<"root">>, <<"sub">>, <<"b", "bin">> >> >>
    /\ idx = 3
    /\ DOMAIN files = { << <<"models">>, <<"metadata", "json">> >>,
                        << <<"models">>, <<"a", "bin">> >>,
                        << <<"models">>, <<"sub">>, <<"b", "bin">> >> }
    /\ << <<"models">>, <<"sub">> >> \in dirs

\* The destination directory joined with the base name of file k.
BaseNamePath(k) == write_dir \o << rpath_files[k][Len(rpath_files[k])] >>

\* The files up to position idx that are written where file k is.
SameBaseName(k) ==
    {j \in 1..Len(rpath_files) : j <= idx /\ BaseNamePath(j) = BaseNamePath(k)}

\* C10: under a root with an extension every file downloaded is written to
\* the destination directory joined with its base name only; a file outside
\* the root is downloaded like any other (the path mapping fails only for a
\* file without base name), and the companion phase writes no other artifact.
C10_FileRootFlattened ==
    (is_some(rpath) /\ ~HasNoDot(unwrap(rpath))) =>
        /\ \A k \in 1..Len(rpath_files) : k < idx =>
               /\ BaseNamePath(k) \in DOMAIN files
               /\ files[BaseNamePath(k)].kind = "artifact"
               /\ \E j \in SameBaseName(k) : files[BaseNamePath(k)].src = rpath_files[j]
               /\ files[BaseNamePath(k)].complete \/ error = "Stream"
        /\ pc = "await_download" =>
               /\ lpath = Some(BaseNamePath(idx))
               /\ unwrap(inflight).path = Some(rpath_files[idx])
        /\ error = "PathMapping" =>
               rpath_files[idx][Len(rpath_files[idx])] = ParentDir
        /\ phase = "companion" =>
               \A p \in DOMAIN files : files[p].kind = "artifact" =>
                   \E k \in 1..Len(rpath_files) : k <= idx /\ p = BaseNamePath(k)

C10_Witness ==
    /\ rpath = Some(<< <<"root">>, <<"model", "onnx">> >>)
    /\ rpath_files = << << <<"root">>, <<"model", "onnx">> >> >>
    /\ idx = 2
    /\ DOMAIN files = { << <<"models">>, <<"metadata", "json">> >>,
                        << <<"models">>, <<"model", "onnx">> >> }
    /\ result = "Ok"

\* The root of the active download_files call has no extension.
DirectoryMode == is_some(rpath) /\ HasNoDot(unwrap(rpath))

\* The files before position k of the listing are on disk, fully written.
EarlierFilesOnDisk(k) ==
    \A j \in 1..(k - 1) :
        /\ MirroredPath(j) \in DOMAIN files
        /\ files[MirroredPath(j)].src = rpath_files[j]
        /\ files[MirroredPath(j)].complete

\* C11: under a root without extension, a listed file that does not have the
\* root as a prefix stops the loop where it stands: the run ends with the
\* path-mapping error, the download requests of the call are those of the
\* files before it, and these files are on disk.
C11_PathMappingAborts ==
    DirectoryMode =>
        /\ \A k \in 1..Len(rpath_files) : (k <= idx /\ ~BelowRoot(k)) =>
               /\ k = idx
               /\ pc \in {"for_file", "done"}
               /\ pc = "done" => result = "Err" /\ error = "PathMapping"
               /\ Cardinality(DownloadRequestsOf(phase)) = k - 1
               /\ EarlierFilesOnDisk(k)
        /\ error = "PathMapping" =>
               /\ idx \in 1..Len(rpath_files)
               /\ ~BelowRoot(idx)
               /\ is_none(inflight)

C11_Witness ==
    /\ rpath = Some(<< <<"root">> >>)
    /\ rpath_files = << << <<"root">>, <<"a", "bin">> >>,
                        << <<"other">>, <<"c", "bin">> >> >>
    /\ pc = "done" /\ error = "PathMapping"
    /\ Cardinality(DownloadRequestsOf(phase)) = 1
    /\ << <<"models">>, <<"a", "bin">> >> \in DOMAIN files

\* The last request sent is a request to the endpoint with path suffix.
LastRequestTo(suffix) ==
    requests # <<>> /\ requests[Len(requests)].url[2] = suffix

\* The last request sent was answered, with a status outside 200..299.
AnsweredNon2xx ==
    /\ is_none(inflight)
    /\ is_some(response)
    /\ unwrap(response).status < 200 \/ unwrap(response).status > 299

\* C12: when the download endpoint answers the request for the k-th file of
\* a listing with a status that is not 2xx, the run ends at once: k download
\* requests were sent in the call, the last of them for the k-th file, and
\* the Err carries the text of the response.
C12_DownloadErrorAborts ==
    (LastRequestTo("/opsml/files/download") /\ AnsweredNon2xx) =>
        /\ pc = "done"
        /\ result \in {"Err", "Panic"}
        /\ Cardinality(DownloadRequestsOf(phase)) = idx
        /\ requests[Len(requests)].path = Some(rpath_files[idx])
        /\ is_some(unwrap(response).body) =>
               /\ result = "Err"
               /\ error = "Download"
               /\ is_some(message)
               /\ unwrap(message)[2] = unwrap(unwrap(response).body)

C12_Witness ==
    /\ Len(rpath_files) = 2
    /\ idx = 1
    /\ pc = "done" /\ error = "Download"
    /\ message = Some(<<"Failed to download model: ", "Not Found">>)
    /\ Cardinality(DownloadRequestsOf(phase)) = 1
    /\ LastRequestTo("/opsml/files/download")

\* The step ends the run with a failure.
FailingStep == result = "running" /\ result' \in {"Err", "Panic"}

\* C13 (as claimed): the step that fails leaves every file that was fully
\* written before it on disk with the content it had.  A download whose
\* stream breaks off has already truncated its local file (File::create), and
\* that file may be one written earlier in the run.
C13_NoRollback ==
    [][ FailingStep =>
            \A p \in DOMAIN files : files[p].complete =>
                p \in DOMAIN files' /\ files'[p] = files[p]
      ]_vars

\* C13 (amended): the step that fails removes no file and no directory, and
\* changes the content of no file other than the local file of the download
\* whose stream broke off; after the failure the disk does not change.
C13_NoRollbackButCurrentFile ==
    [][ /\ FailingStep =>
            /\ dirs \subseteq dirs'
            /\ \A p \in DOMAIN files :
                   /\ p \in DOMAIN files'
                   /\ \/ files'[p] = files[p]
                      \/ error' = "Stream" /\ p = Resolve(unwrap(lpath))
        /\ result \in {"Err", "Panic"} => files' = files /\ dirs' = dirs
      ]_vars

C13_Witness ==
    /\ pc = "done" /\ error = "Stream"
    /\ phase = "primary"
    /\ idx = 2
    /\ Cardinality(DOMAIN files) = 3
    /\ \E p \in DOMAIN files : ~files[p].complete
    /\ Cardinality({p \in DOMAIN files : files[p].complete}) = 2

\* The position of request i among the download requests of the active call.
DownloadPosition(i) == Cardinality({j \in DownloadRequestsOf(phase) : j <= i})

\* The step sends a request to the download endpoint.
SendsDownload ==
    /\ Len(requests') = Len(requests) + 1
    /\ requests'[Len(requests')].url[2] = "/opsml/files/download"

\* C14: the download requests of a download_files call are, in order, those
\* of a prefix of the listing (of the whole listing when the call succeeds):
\* the i-th request is for the i-th listed file, a request is sent only when
\* none is in flight and the file before was streamed completely, and after a
\* failure no request follows.
C14_SequentialDownloads ==
    [][ /\ LET n == Cardinality(DownloadRequestsOf(phase)') IN
           /\ n <= Len(rpath_files')
           /\ \A i \in DownloadRequestsOf(phase)' :
                  requests'[i].path = Some(rpath_files'[DownloadPosition(i)'])
           /\ pc' = "for_file" => n = idx' - 1
           /\ pc' = "await_download" =>
                  n = idx' /\ inflight' = Some(requests'[Len(requests')])
           /\ (result' = "Ok" /\ entry = "download_model") => n = Len(rpath_files')
        /\ SendsDownload =>
               /\ is_none(inflight)
               /\ idx' = idx
               /\ requests'[Len(requests')].path = Some(rpath_files[idx])
               /\ idx > 1 =>
                      /\ is_success(unwrap(response).status)
                      /\ Resolve(unwrap(lpath)) \in DOMAIN files
                      /\ files[Resolve(unwrap(lpath))] = Artifact(rpath_files[idx - 1], TRUE)
        /\ result # "running" => requests' = requests /\ inflight' = inflight
      ]_vars

C14_Witness ==
    /\ phase = "primary"
    /\ Len(rpath_files) = 2
    /\ rpath_files[1] # rpath_files[2]
    /\ Cardinality(DownloadRequestsOf("primary")) = 2
    /\ pc = "await_download"
    /\ unwrap(inflight).path = Some(rpath_files[2])

\* The requests to the metadata endpoint, as positions of the request history.
MetadataRequests ==
    {i \in DOMAIN requests : requests[i].url[2] = "/opsml/models/metadata"}

\* The requests to the listing endpoint, whatever the phase.
ListRequests ==
    {i \in DOMAIN requests : requests[i].url[2] = "/opsml/files/list"}

\* A companion field of the metadata is populated.
CompanionPopulated ==
    LET m == unwrap(model_metadata) IN
    \/ is_some(m.preprocessor_uri)
    \/ is_some(m.tokenizer_uri)
    \/ is_some(m.feature_extractor_uri)

\* C15: a retrieval that succeeds has sent one POST to the metadata endpoint,
\* as its first request, and one listing request per root: for the primary
\* root alone when no companion field is populated, for the companion root
\* and then for the primary root when one is.  Without companion, a listing
\* of the primary root artifacts/model.pkl that holds this file alone leaves
\* metadata.json and model.pkl in the destination directory and nothing else.
C15_OneListingPerRoot ==
    (entry = "download_model" /\ result = "Ok") =>
        /\ MetadataRequests = {1}
        /\ requests[1].method = "POST"
        /\ Cardinality(ListRequestsOf("primary")) = 1
        /\ Cardinality(ListRequestsOf("companion")) = IF CompanionPopulated THEN 1 ELSE 0
        /\ Cardinality(ListRequests) = IF CompanionPopulated THEN 2 ELSE 1
        /\ \A i \in ListRequestsOf("companion"), j \in ListRequestsOf("primary") : i < j
        /\ \A j \in ListRequestsOf("primary") : requests[j].path = rpath
        /\ (~CompanionPopulated /\ rpath_files = <<ModelUri>>) =>
               DOMAIN files = { << <<"models">>, <<"metadata", "json">> >>,
                                << <<"models">>, <<"model", "pkl">> >> }

C15_Witness ==
    /\ entry = "download_model" /\ result = "Ok"
    /\ is_some(name) /\ is_some(version) /\ is_none(uid)
    /\ no_onnx
    /\ ~CompanionPopulated
    /\ rpath = Some(ModelUri)
    /\ rpath_files = <<ModelUri>>
    /\ Cardinality(ListRequests) = 1
    /\ DOMAIN files = { << <<"models">>, <<"metadata", "json">> >>,
                        << <<"models">>, <<"model", "pkl">> >> }

\* C16 (as claimed): a response of the listing endpoint with a status that is
\* not 2xx, or with a body that is no listing, ends the run with the listing
\* error, and no download request of the call is sent.  list_files does not
\* look at the status: response.json() parses the body of a 404 as well.
C16_ListingFailsOnNon2xx ==
    ( /\ LastRequestTo("/opsml/files/list")
      /\ is_none(inflight)
      /\ is_some(response)
      /\ AnsweredNon2xx \/ is_none(unwrap(response).body) ) =>
        /\ pc = "done"
        /\ result = "Err"
        /\ error = "Listing"
        /\ DownloadRequestsOf(phase) = {}

\* The resolved local path of metadata.json.
MetadataPath == Resolve(join(write_dir, <<MODEL_METADATA_FILE>>))

\* The values of types::ModelMetadata, as far as the URI fields go.
ModelMetadataValues ==
    [model_uri : {ModelUri},
     onnx_uri : OptionOf(OnnxUri),
     quantized_model_uri : OptionOf(QuantizedUri),
     preprocessor_uri : OptionOf(PreprocessorUri),
     tokenizer_uri : OptionOf(TokenizerUri),
     feature_extractor_uri : OptionOf(FeatureExtractorUri)]

\* C17: parsing the JSON text that serde_json::to_string makes of a
\* ModelMetadata value gives the value back; the metadata.json that a
\* metadata resolution has written parses to the value the resolution
\* returned, and this value is the one parsed from the body of the response.
C17_MetadataRoundTrip ==
    /\ \A m \in ModelMetadataValues : parse_metadata(Some(to_string(m))) = Some(m)
    /\ is_some(model_metadata) =>
           /\ unwrap(model_metadata) \in ModelMetadataValues
           /\ MetadataPath \in DOMAIN files
           /\ files[MetadataPath].kind = "metadata"
           /\ parse_metadata(files[MetadataPath].doc) = model_metadata
           /\ is_some(response)
           /\ parse_metadata(unwrap(response).body) = model_metadata

C17_Witness ==
    /\ result = "Ok"
    /\ is_some(unwrap(model_metadata).onnx_uri)
    /\ is_none(unwrap(model_metadata).tokenizer_uri)
    /\ unwrap(response).body # files[MetadataPath].doc
    /\ parse_metadata(files[MetadataPath].doc) = model_metadata

\* The metadata resolution has succeeded and its response is the last one.
MetadataSaved ==
    /\ is_some(model_metadata)
    /\ Len(requests) = 1
    /\ is_some(response)
    /\ MetadataPath \in DOMAIN files

\* The optional URI keys of a metadata document.
OptionalKeys ==
    {"onnx_uri", "quantized_model_uri", "preprocessor_uri", "tokenizer_uri",
     "feature_extractor_uri"}

\* C18 (as claimed): after a metadata resolution metadata.json holds the
\* document of the response as it was sent, undeclared keys included.  The
\* file holds the text serialised from the parsed value instead.
C18_MetadataVerbatim ==
    MetadataSaved => files[MetadataPath].doc = unwrap(response).body

\* C18 (amended): after a metadata resolution metadata.json holds the
\* declared keys only: a key that is a string in the response has the same
\* string, a key that is null or missing in the response is null, and no
\* undeclared key of the response is in the file.
C18_MetadataDeclaredKeysOnly ==
    MetadataSaved =>
        LET sent == unwrap(unwrap(response).body)
            saved == unwrap(files[MetadataPath].doc)
        IN
        /\ saved.model_uri = sent.model_uri
        /\ \A k \in OptionalKeys :
               saved[k] = IF sent[k][1] = "string" THEN sent[k] ELSE JsonNull
        /\ saved.undeclared = JsonAbsent

C18_Witness ==
    /\ MetadataSaved
    /\ result = "Ok"
    /\ unwrap(unwrap(response).body).undeclared = JsonString("extra")
    /\ unwrap(unwrap(response).body).onnx_uri = JsonAbsent
    /\ unwrap(files[MetadataPath].doc).undeclared = JsonAbsent
    /\ unwrap(files[MetadataPath].doc).onnx_uri = JsonNull

\* The strings and the characters remove_suffix is tried on.
SuffixChars == {"/", "a"}
SuffixStrings == SeqsUpTo(SuffixChars, MaxLen)

\* s ends with the character c.
EndsWith(s, c) == Len(s) > 0 /\ s[Len(s)] = c

\* C19: remove_suffix(s, c) is s without its last character when s ends with
\* c (one occurrence is removed, not every trailing one) and s otherwise.  The
\* base of every url requested is the environment variable without its last
\* '/' when it ends with one, and the environment variable as it is otherwise.
C19_OneTrailingSlashStripped ==
    /\ \A s \in SuffixStrings, c \in SuffixChars :
           IF EndsWith(s, c)
           THEN Append(remove_suffix(s, c), c) = s
           ELSE remove_suffix(s, c) = s
    /\ is_some(tracking_uri) =>
           LET val == unwrap(env_uri)
               base == unwrap(tracking_uri)
           IN
           /\ IF EndsWith(val, "/") THEN Append(base, "/") = val ELSE base = val
           /\ val = <<"http://localhost:8080", "/">> => base = <<"http://localhost:8080">>
    /\ \A i \in DOMAIN requests :
           is_some(tracking_uri) /\ requests[i].url[1] = unwrap(tracking_uri)

C19_Witness ==
    /\ env_uri = Some(<<"http://localhost:8080", "/", "/">>)
    /\ tracking_uri = Some(<<"http://localhost:8080", "/">>)
    /\ requests # <<>>
    /\ requests[1].url = << <<"http://localhost:8080", "/">>, "/opsml/models/metadata" >>
    /\ result = "Ok"

\* The download_files call of phase ph has returned Ok.
TreeDownloaded(ph) ==
    /\ phase = ph
    /\ idx = Len(rpath_files) + 1
    /\ Cardinality(DownloadRequestsOf(ph)) = Len(rpath_files)

\* The state of a retrieval in the state machine of the orchestrator.
Stage ==
    IF result \in {"Err", "Panic"} THEN "Failed"
    ELSE IF result = "Ok" THEN "Done"
    ELSE IF is_none(model_metadata) THEN "Start"
    ELSE IF TreeDownloaded("primary") THEN "PrimaryDownloaded"
    ELSE IF TreeDownloaded("companion") \/
            (phase = "primary" /\ RequestsOf("companion") # {})
         THEN "CompanionDownloaded"
    ELSE "MetadataResolved"

\* C20: a retrieval goes from Start to MetadataResolved, from there to
\* CompanionDownloaded when a companion root is selected and straight to
\* PrimaryDownloaded when none is, from CompanionDownloaded to
\* PrimaryDownloaded, and from PrimaryDownloaded to Done, or from any of these
\* to Failed; metadata.json is on disk from MetadataResolved on, Done is
\* entered from PrimaryDownloaded only, and in Done and in Failed nothing is
\* sent and nothing is written.
C20_StateMachine ==
    [][ entry = "download_model" =>
        /\ Stage = "Start" =>
               Stage' \in {"Start", "MetadataResolved", "Failed"}
        /\ Stage = "MetadataResolved" =>
               /\ Stage' \in {"MetadataResolved", "CompanionDownloaded",
                              "PrimaryDownloaded", "Failed"}
               /\ Stage' = "CompanionDownloaded" =>
                      is_some(CompanionExpected) /\ TreeDownloaded("companion")'
               /\ Stage' = "PrimaryDownloaded" =>
                      is_none(CompanionExpected) /\ RequestsOf("companion") = {}
        /\ Stage = "CompanionDownloaded" =>
               Stage' \in {"CompanionDownloaded", "PrimaryDownloaded", "Failed"}
        /\ Stage = "PrimaryDownloaded" => Stage' = "Done"
        /\ Stage \in {"Done", "Failed"} =>
               requests' = requests /\ inflight' = inflight /\ files' = files /\ dirs' = dirs
        /\ Stage' \in {"MetadataResolved", "CompanionDownloaded",
                       "PrimaryDownloaded", "Done"} =>
               /\ MetadataPath \in DOMAIN files'
               /\ MetadataRequests' = {1}
        /\ Stage' = "Done" =>
               /\ Stage = "PrimaryDownloaded"
               /\ TreeDownloaded("primary")'
               /\ is_none(inflight')
      ]_vars

C20_Witness ==
    /\ Stage = "Done"
    /\ entry = "download_model"
    /\ RequestsOf("companion") # {}
    /\ Len(rpath_files) = 2
    /\ Cardinality(DOMAIN files) >= 3

\* The last response is the one of the metadata endpoint, and its body is no
\* metadata document: no JSON object, or an object without model_uri.
UnparseableMetadata ==
    /\ Len(requests) = 1
    /\ is_none(inflight)
    /\ is_some(response)
    /\ \/ is_none(unwrap(response).body)
       \/ unwrap(unwrap(response).body).model_uri[1] # "string"

C22_Terminates ==
    /\ <>(pc = "done" /\ result \in {"Ok", "Err", "Panic"})
    /\ [][ (phase' = phase /\ rpath_files' = rpath_files /\ idx > 0) => idx' >= idx ]_vars
    /\ [][ /\ Cardinality(ListRequestsOf("companion")') <= 1
           /\ Cardinality(ListRequestsOf("primary")') <= 1
           /\ Cardinality(DownloadRequestsOf(phase)') <= Len(rpath_files')
      ]_vars

C22_Witness ==
    /\ pc = "done" /\ result = "Ok"
    /\ entry = "download_model"
    /\ Cardinality(DownloadRequestsOf("companion")) = 2
    /\ Cardinality(DownloadRequestsOf("primary")) = 2
    /\ Len(requests) = 7

\* C23: the base of the endpoint urls is fixed at the first use: from then on
\* tracking_uri does not change, whatever becomes of the environment
\* variable, and every request has the base of the first one; it is the
\* value the variable had at the first use; and when the variable is unset
\* at the first use the thread panics before any request, no Err is returned.
C23_BaseUrlReadOnce ==
    [][ /\ is_some(tracking_uri) => tracking_uri' = tracking_uri
        /\ (is_none(tracking_uri) /\ is_some(tracking_uri')) =>
               /\ is_some(env_uri)
               /\ unwrap(tracking_uri') = <<unwrap(env_uri)[1]>>
        /\ \A i \in DOMAIN requests' :
               /\ requests'[i].url[1] = requests'[1].url[1]
               /\ tracking_uri' = Some(requests'[i].url[1])
        /\ (pc = "get_model_metadata" /\ pc' # pc /\ is_none(env_uri)) =>
               /\ result' = "Panic" /\ error' = "NoTrackingUri"
               /\ requests' = <<>>
        /\ error' = "NoTrackingUri" => result' = "Panic" /\ is_none(tracking_uri')
      ]_vars

C23_Witness ==
    /\ result = "Ok"
    /\ Len(requests) >= 3
    /\ env_uri = Some(<<"http://registry:8888">>)
    /\ tracking_uri = Some(<<"http://localhost:8080">>)
    /\ requests[Len(requests)].url =
           << <<"http://localhost:8080">>, "/opsml/files/download" >>

\* The resolved path p is the destination directory or lies inside it.
InsideWriteDir(p) == starts_with(p, write_dir)

\* C24 (as claimed): every file written and every directory created lies
\* inside the destination directory (the working directory and the
\* destination directory itself are its ancestors).  A listed path with a
\* ".." component after the root is joined to write_dir as it is.
C24_Contained ==
    /\ \A p \in DOMAIN files : InsideWriteDir(p)
    /\ \A d \in dirs : d = <<>> \/ InsideWriteDir(d)

\* The distinct remote paths of the listing of the active call.
ListedPaths == {rpath_files[k] : k \in 1..Len(rpath_files)}

\* The local files whose content comes from a file of the listing of the
\* active call.
FilesOfTree == {p \in DOMAIN files : files[p].kind = "artifact" /\ files[p].src \in ListedPaths}

\* C25 (as claimed): when a download_files call has returned Ok, the local
\* files it has written are as many as the distinct paths of its listing.
\* Under a root with an extension the local path is the base name alone, so
\* models/v1.0.0/a/x.bin and models/v1.0.0/b/x.bin are one local file.
C25_NoOverwriteWithinTree ==
    (pc = "for_file" /\ idx = Len(rpath_files) + 1) =>
        Cardinality(FilesOfTree) = Cardinality(ListedPaths)

\* C26 (as claimed): after a retrieval that succeeded, metadata.json in the
\* destination directory is the file the metadata resolution wrote.  A listed
\* file whose local path is metadata.json is downloaded over it.
C26_MetadataFileKept ==
    (entry = "download_model" /\ result = "Ok") =>
        /\ MetadataPath \in DOMAIN files
        /\ files[MetadataPath].kind = "metadata"
        /\ parse_metadata(files[MetadataPath].doc) = model_metadata

\* C27 (as claimed): a response of the metadata endpoint with a status that
\* is not 2xx ends the run with a failure, with nothing written and no
\* metadata held.  get_model_metadata does not look at the status: the body of
\* a 404 that parses as ModelMetadata is saved and the retrieval goes on.
C27_Non2xxMetadataFails ==
    (LastRequestTo("/opsml/models/metadata") /\ AnsweredNon2xx) =>
        /\ pc = "done"
        /\ result \in {"Err", "Panic"}
        /\ DiskUntouched
        /\ is_none(model_metadata)

\* The primary root that no_onnx, quantize and the metadata ask for; the onnx
\* flag has no part in it.
PrimaryRootWanted ==
    LET m == unwrap(model_metadata) IN
    IF no_onnx THEN Some(m.model_uri)
    ELSE IF quantize THEN m.quantized_model_uri
    ELSE m.onnx_uri

C30_DoneHasPrimaryArtifact ==
    (entry = "download_model" /\ result = "Ok") =>
        /\ DownloadRequestsOf("primary") # {}
        /\ \E p \in DOMAIN files : files[p].kind = "artifact"

====
